---- MODULE Spec2Model ----
(***************************************************************************)
(* gulp-compression-report: the module-level maps `files' and              *)
(* `extensions', the `options' object, and the handlers of the stream the  *)
(* exported factory returns: gather (one call per file) and report (the    *)
(* flush, one call per stream at end of input).                            *)
(*                                                                         *)
(* Strings are sequences of one-character strings, so that the regular     *)
(* expression test/replace, split('.') and toLowerCase are computed on     *)
(* characters.  Numbers produced by a division are kept as exact           *)
(* fractions, with the JavaScript values NaN and Infinity for a zero       *)
(* denominator.                                                            *)
(***************************************************************************)
EXTENDS Integers, Sequences, FiniteSets, TLC

\* ------------------------------------------------------------------ bounds
\* number of gather calls (files pushed through the streams) in a run
MaxGather == 2
\* number of calls of the exported factory in a run
MaxFactory == 2

\* --------------------------------------------------------------- characters
\* The characters of the modelled paths, in UTF-16 code unit order (the order
\* the < of _.sortBy compares strings by).
Alphabet ==
  << "*", "-", ".", "J", "S", "_", "a", "i", "j", "m", "n", "o", "p", "r", "s", "t" >>

Ord(c) == CHOOSE i \in 1..Len(Alphabet) : Alphabet[i] = c

\* String.prototype.toLowerCase, one character
LowerChar(c) == CASE c = "J" -> "j" [] c = "S" -> "s" [] OTHER -> c

toLowerCase(s) == [i \in 1..Len(s) |-> LowerChar(s[i])]

\* a < b on strings: lexicographic on code units, a proper prefix is smaller
RECURSIVE StrLess(_, _)
StrLess(a, b) ==
  IF Len(b) = 0 THEN FALSE
  ELSE IF Len(a) = 0 THEN TRUE
  ELSE IF a[1] = b[1] THEN StrLess(Tail(a), Tail(b))
  ELSE Ord(a[1]) < Ord(b[1])

\* _.sortBy(set of distinct strings): ascending sequence
RECURSIVE sortBy(_)
sortBy(S) ==
  IF S = {} THEN << >>
  ELSE LET m == CHOOSE x \in S : \A y \in S \ {x} : StrLess(x, y)
       IN  << m >> \o sortBy(S \ {m})

\* --------------------------------------------------- regular expression /lit/
\* A non-global RegExp whose source is a literal: the first index where the
\* literal occurs in s, 0 when it does not occur.
FirstMatch(re, s) ==
  LET hits == { i \in 1..(Len(s) - Len(re) + 1) : SubSeq(s, i, i + Len(re) - 1) = re }
  IN  IF hits = {} THEN 0 ELSE CHOOSE i \in hits : \A j \in hits : i <= j

\* RegExp.prototype.test
RegExpTest(re, s) == FirstMatch(re, s) # 0

\* String.prototype.replace(re, '') with a non-global re: the first match is
\* removed, the rest of the string is kept as it is
StringReplace(s, re) ==
  LET i == FirstMatch(re, s)
  IN  IF i = 0 THEN s
      ELSE SubSeq(s, 1, i - 1) \o SubSeq(s, i + Len(re), Len(s))

\* s.split('.') followed by _.last: the characters after the last '.', the
\* whole string when it holds no '.'
LastOfSplit(s) ==
  LET dots == { i \in 1..Len(s) : s[i] = "." }
  IN  IF dots = {} THEN s
      ELSE LET k == CHOOSE i \in dots : \A j \in dots : j <= i
           IN  SubSeq(s, k + 1, Len(s))

\* ------------------------------------------------------------------ numbers
RECURSIVE GCD(_, _)
GCD(a, b) == IF b = 0 THEN a ELSE GCD(b, a % b)

NaN == [n |-> 0, d |-> 0]
Infinity == [n |-> 1, d |-> 0]
\* the value of a property that was never assigned
undefined == [n |-> 0 - 1, d |-> 0 - 1]

\* JavaScript n / d on non-negative numbers, as a fraction in lowest terms
Divide(n, d) ==
  IF d = 0 THEN (IF n = 0 THEN NaN ELSE Infinity)
  ELSE LET g == GCD(n, d) IN [n |-> n \div g, d |-> d \div g]

\* ToBoolean of a number or undefined
Truthy(x) == x # undefined /\ x # NaN /\ x.n # 0

\* ------------------------------------------------------------- input space
\* /\.min/, the default of options.minifiedName, and a pattern of a caller
DotMin == << ".", "m", "i", "n" >>
DashMin == << "-", "m", "i", "n" >>

\* the name whose assignment on a plain object sets the object's prototype
\* instead of creating a property
ProtoKey == << "_", "_", "p", "r", "o", "t", "o", "_", "_" >>

\* file.relative of the files pushed through the streams
Relatives ==
  { << "a", ".", "j", "s" >>,
    << "a" >> \o DotMin \o << ".", "j", "s" >>,
    << "a" >> \o DotMin \o DotMin \o << ".", "J", "S" >>,
    << "a", ".", "*" >>,
    ProtoKey,
    ProtoKey \o DotMin }

\* a property that is not there (the value undefined of an object property)
absent == [size |-> 0 - 1, gzipSize |-> 0 - 1]

\* what record stores for a file: contents.length and gzipSize.sync(contents),
\* for an empty file and for two files of different lengths (the output of
\* gzip is never empty)
Datas ==
  { [size |-> 0, gzipSize |-> 1],
    [size |-> 1, gzipSize |-> 1],
    [size |-> 2, gzipSize |-> 2] }

\* vinyl files: isNull() is true exactly when contents is null
Files ==
  [relative : Relatives, isNull : {FALSE}, contents : Datas]
    \cup [relative : Relatives, isNull : {TRUE}, contents : {absent}]

noFile == [relative |-> << >>, isNull |-> TRUE, contents |-> absent]

\* arguments of the exported factory: no argument, or an object holding the
\* keys in `has'
noOpts == [isObject |-> FALSE, has |-> {}, minifiedName |-> << >>, verbose |-> FALSE]

OptsArgs ==
  { noOpts,
    [isObject |-> TRUE, has |-> {}, minifiedName |-> << >>, verbose |-> FALSE],
    [isObject |-> TRUE, has |-> {"minifiedName"}, minifiedName |-> DashMin, verbose |-> FALSE],
    [isObject |-> TRUE, has |-> {"verbose"}, minifiedName |-> << >>, verbose |-> TRUE] }

\* -------------------------------------------------------------------- state
VARIABLES
  constIsLegacy,  \* the engine's `const': TRUE when an assignment to it is
                  \* ignored (sloppy-mode legacy const), FALSE when it throws
  options,        \* the module-level options object
  files,          \* own properties of `files', in insertion order
  filesProto,     \* the prototype of `files' when set through "__proto__"
  extensions,     \* the module-level extensions map
  open,           \* streams returned by the factory that have not ended
  nFactory,       \* calls of the factory so far
  nGather,        \* calls of gather so far
  call,           \* the last call: [op, file, opts]
  threw,          \* whether the last call ended by throwing
  cbCalls,        \* how often the last call invoked its callback
  downstream,     \* the files the last call passed to its callback
  output,         \* what the last report logged
  ingested,       \* history: per relative path, the data last recorded for it
  replaced        \* history: when the last two calls were gather calls of
                  \* files with content, the same normalized name and the
                  \* same classification, the data of the earlier one

vars ==
  << constIsLegacy, options, files, filesProto, extensions, open, nFactory,
     nGather, call, threw, cbCalls, downstream, output, ingested, replaced >>

\* ------------------------------------------------------- options, normalizer
defaultOptions == [minifiedName |-> DotMin, verbose |-> FALSE]

normalizeFilename(filename) == StringReplace(filename, options.minifiedName)

isMinified(filename) == RegExpTest(options.minifiedName, filename)

\* --------------------------------------------------------------- the maps
emptyExtension ==
  [ count |-> [minified |-> 0, unminified |-> 0, both |-> 0],
    size |-> [minified |-> 0, unminified |-> 0, src |-> 0, dist |-> 0, gzip |-> 0],
    minificationRatio |-> [count |-> undefined, size |-> undefined],
    compressionRatio |-> undefined ]

Wildcard == << "*" >>

\* the object literal { name: normalized }
newEntry(normalized) ==
  [ name |-> normalized, unminified |-> absent, minified |-> absent,
    minificationSizeRatio |-> undefined, compressionSizeRatio |-> undefined ]

\* Object.prototype, the prototype of the literal {}: it holds none of the
\* properties of an entry
objectPrototype == newEntry(<< >>)

\* _.keys(files): own property names, in insertion order
keys(fs) == [i \in 1..Len(fs) |-> fs[i].name]

\* _.has(files, key): an own property; "__proto__" is never one, because
\* files["__proto__"] = v sets the prototype
has(fs, key) == \E i \in 1..Len(fs) : fs[i].name = key

IndexOfKey(fs, key) == CHOOSE i \in 1..Len(fs) : fs[i].name = key

\* files[key] on the files object [fs, proto], for a key that is an own
\* property or "__proto__"
entryIn(fs, proto, key) ==
  IF key = ProtoKey THEN proto ELSE fs[IndexOfKey(fs, key)]

\* ------------------------------------------------------------------ gather
\* record as it would be if a field already set were kept (first write wins)
recordFirstWins(fs, proto, name, data) ==
  LET normalized == normalizeFilename(name)
      minKey == IF isMinified(name) THEN "minified" ELSE "unminified"
      fs1 == IF has(fs, normalized) \/ normalized = ProtoKey THEN fs
             ELSE Append(fs, newEntry(normalized))
      proto1 == IF normalized = ProtoKey /\ proto = objectPrototype
                THEN newEntry(normalized) ELSE proto
      keep(entry) == IF entry[minKey] = absent THEN [entry EXCEPT ![minKey] = data]
                     ELSE entry
  IN  IF normalized = ProtoKey
      THEN [own |-> fs1, proto |-> keep(proto1)]
      ELSE [own |-> [fs1 EXCEPT ![IndexOfKey(fs1, normalized)] = keep(@)],
            proto |-> proto1]

\* record(err, data) of gather for file.relative = name: the files object
\* after it, as [own, proto]
record(fs, proto, name, data) ==
  LET normalized == normalizeFilename(name)
      minKey == IF isMinified(name) THEN "minified" ELSE "unminified"
      \* if (!_.has(files, normalized)) files[normalized] = { name: normalized }
      fs1 == IF has(fs, normalized) \/ normalized = ProtoKey THEN fs
             ELSE Append(fs, newEntry(normalized))
      proto1 == IF normalized = ProtoKey THEN newEntry(normalized) ELSE proto
  IN  \* files[normalized][minKey] = data
      IF normalized = ProtoKey
      THEN [own |-> fs1, proto |-> [proto1 EXCEPT ![minKey] = data]]
      ELSE [own |-> [fs1 EXCEPT ![IndexOfKey(fs1, normalized)][minKey] = data],
            proto |-> proto1]

\* gather as it would be without the isNull check, a file without content
\* recorded like an empty one
gatherWithoutNullCheck(fs, proto, file) ==
  LET data == IF file.isNull THEN [size |-> 0, gzipSize |-> 1] ELSE file.contents
      r == record(fs, proto, file.relative, data)
  IN  [own |-> r.own, proto |-> r.proto, downstream |-> << file >>]

\* gather(file, enc, cb) on the files object [own, proto]: the files object
\* after it and the arguments of its calls of cb
gather(fs, proto, file) ==
  IF file.isNull
  THEN \* return cb(null, file)
       [own |-> fs, proto |-> proto, downstream |-> << file >>]
  ELSE LET r == record(fs, proto, file.relative, file.contents)
       IN  [own |-> r.own, proto |-> r.proto, downstream |-> << file >>]

\* ------------------------------------------------------------------ report
\* _.get(file, 'minified.size', 0) and _.get(file, 'unminified.size', 0)
sizeOr0(data) == IF data = absent THEN 0 ELSE data.size

\* the variant both determineCompressionSizeRatio and postProcessFiles read
\* the gzipSize of: (minified ? 'minified' : 'unminified')
bestKey(file) == IF sizeOr0(file.minified) # 0 THEN "minified" ELSE "unminified"

\* file[key].gzipSize with file[key] undefined: a TypeError
throwsTypeError(file) == file[bestKey(file)] = absent

determineCompressionSizeRatio(file) ==
  LET minified == sizeOr0(file.minified)
      unminified == sizeOr0(file.unminified)
      compressed == file[bestKey(file)].gzipSize
      f1 == IF unminified # 0 /\ minified # 0
            THEN [file EXCEPT !.minificationSizeRatio = Divide(minified, unminified)]
            ELSE file
  IN  [f1 EXCEPT !.compressionSizeRatio =
         Divide(compressed, IF unminified # 0 THEN unminified ELSE minified)]

\* the body of _.each(['*', extension], ...) for one bucket
foldInto(entry, data) ==
  LET unminified == sizeOr0(data.unminified)
      minified == sizeOr0(data.minified)
  IN  [ entry EXCEPT
          !.size.unminified = @ + unminified,
          !.size.minified = @ + minified,
          !.size.src = @ + (IF unminified # 0 THEN unminified ELSE minified),
          !.size.dist = @ + (IF minified # 0 THEN minified ELSE unminified),
          !.size.gzip = @ + data[bestKey(data)].gzipSize,
          !.count.unminified = @ + (IF unminified # 0 /\ minified = 0 THEN 1 ELSE 0),
          !.count.minified = @ + (IF unminified = 0 /\ minified # 0 THEN 1 ELSE 0),
          !.count.both = @ + (IF unminified # 0 /\ minified # 0 THEN 1 ELSE 0) ]

\* the extension of a files key
extensionOf(name) == toLowerCase(LastOfSplit(name))

\* the callback of _.forOwn(files, ...) for one file that does not throw
foldFile(exts, data, name) ==
  LET extension == extensionOf(name)
      e1 == IF extension \in DOMAIN exts THEN exts
            ELSE [x \in DOMAIN exts \cup {extension} |->
                    IF x = extension THEN emptyExtension ELSE exts[x]]
      e2 == [e1 EXCEPT ![Wildcard] = foldInto(@, data)]
  IN  [e2 EXCEPT ![extension] = foldInto(@, data)]

\* postProcessFiles from the i-th own property of files on, in insertion
\* order; a TypeError leaves what the earlier files changed
RECURSIVE postProcessFilesFrom(_, _, _)
postProcessFilesFrom(i, fs, exts) ==
  IF i > Len(fs) THEN [files |-> fs, extensions |-> exts, threw |-> FALSE]
  ELSE IF throwsTypeError(fs[i]) THEN [files |-> fs, extensions |-> exts, threw |-> TRUE]
  ELSE LET data == determineCompressionSizeRatio(fs[i])
       IN  postProcessFilesFrom(i + 1, [fs EXCEPT ![i] = data],
                                foldFile(exts, data, fs[i].name))

postProcessFiles(fs, exts) == postProcessFilesFrom(1, fs, exts)

\* _.sum(data.count): the sum of the object's values
sumCount(count) == count.minified + count.unminified + count.both

postProcessExtensions(exts) ==
  [ extension \in DOMAIN exts |->
      LET data == exts[extension]
          totalCount == sumCount(data.count)
      IN  [ data EXCEPT
              !.minificationRatio =
                 [ count |-> Divide(data.count.minified + data.count.both, totalCount),
                   size |-> Divide(data.size.dist, data.size.src) ],
              !.compressionRatio = Divide(data.size.gzip, data.size.src) ] ]

\* print(num) of fileRow and extensionRow; prettyBytes of a number below
\* 1000 is the number followed by " B"; an undefined num is given as -1
print(num) == IF num > 0 THEN ToString(num) \o " B" ELSE "--"

\* printPerc(num): (100 * num).toFixed(0) + '%' for a truthy num
printPerc(num) ==
  IF ~Truthy(num) THEN "--"
  ELSE IF num = Infinity THEN "Infinity%"
  ELSE ToString((200 * num.n + num.d) \div (2 * num.d)) \o "%"

\* _.get(files[filename], 'unminified.size') and the like: undefined as -1
getOrUndefined(data, field) == IF data = absent THEN 0 - 1 ELSE data[field]

fileRow(fs, filename) ==
  LET file == fs[IndexOfKey(fs, filename)]
      gzipSize == getOrUndefined(file.unminified, "gzipSize")
      minGzipSize == getOrUndefined(file.minified, "gzipSize")
  IN  [ file |-> filename,
        size |-> print(getOrUndefined(file.unminified, "size")),
        minSize |-> print(getOrUndefined(file.minified, "size")),
        gzipSize |-> print(gzipSize),
        minGzipSize |-> print(minGzipSize),
        minRatio |-> printPerc(file.minificationSizeRatio),
        compressionRatio |-> printPerc(file.compressionSizeRatio),
        wire |-> print(IF minGzipSize > 0 THEN minGzipSize ELSE gzipSize) ]

extensionRow(exts, extension) ==
  LET data == exts[extension]
  IN  [ extension |-> extension,
        count |-> sumCount(data.count),
        size |-> print(data.size.unminified),
        minSize |-> print(data.size.minified),
        gzipSize |-> print(data.size.gzip),
        minRatio |-> printPerc(data.minificationRatio.size),
        compressionRatio |-> printPerc(data.compressionRatio),
        wire |-> print(data.size.gzip) ]

Range(seq) == { seq[i] : i \in 1..Len(seq) }

\* _.filter(files, function (data) { return !data.minified; }), as names
needsMinification(fs) ==
  LET F[i \in 0..Len(fs)] ==
        IF i = 0 THEN << >>
        ELSE IF fs[i].minified = absent THEN Append(F[i - 1], fs[i].name)
        ELSE F[i - 1]
  IN  F[Len(fs)]

noOutput ==
  [ notice |-> "", fileCount |-> 0, missing |-> << >>, fileTable |-> << >>,
    extensionTable |-> << >>, overallTable |-> << >> ]

\* what report logs once postProcessFiles and postProcessExtensions are done
rendered(fs, exts) ==
  LET sortedFiles == sortBy(Range(keys(fs)))
      sortedExtensions == sortBy(DOMAIN exts \ {Wildcard})
  IN  [ notice |-> "File Statistics",
        fileCount |-> Len(fs),
        missing |-> needsMinification(fs),
        fileTable |-> [i \in 1..Len(sortedFiles) |-> fileRow(fs, sortedFiles[i])],
        extensionTable |->
          [i \in 1..Len(sortedExtensions) |-> extensionRow(exts, sortedExtensions[i])],
        overallTable |-> << extensionRow(exts, Wildcard) >> ]

\* report(cb) on the maps: the maps after it, what it logged, whether it threw
\* and how often it called cb
report(fs, exts) ==
  IF Len(keys(fs)) = 0
  THEN \* gutil.log('no data'); return cb()
       [ files |-> fs, extensions |-> exts, threw |-> FALSE, cbCalls |-> 1,
         output |-> [noOutput EXCEPT !.notice = "no data"] ]
  ELSE LET p == postProcessFiles(fs, exts)
           e == postProcessExtensions(p.extensions)
       IN  IF p.threw
           THEN [ files |-> p.files, extensions |-> p.extensions, threw |-> TRUE,
                  cbCalls |-> 0, output |-> noOutput ]
           ELSE [ files |-> p.files, extensions |-> e, threw |-> FALSE,
                  cbCalls |-> 1, output |-> rendered(p.files, e) ]

\* ----------------------------------------------------------------- factory
\* _.defaults(opts, options): opts with the keys it lacks taken from options
defaults(opts, src) ==
  [ minifiedName |-> IF "minifiedName" \in opts.has THEN opts.minifiedName
                     ELSE src.minifiedName,
    verbose |-> IF "verbose" \in opts.has THEN opts.verbose ELSE src.verbose ]

\* `options = value' where options is declared const: the binding keeps its
\* value, whether the engine ignores the assignment or throws a TypeError
assignToConst(current, value) == current

\* ----------------------------------------------------------------- actions
\* two files with content that record keys and classifies alike
sameLogicalFile(f, g) ==
  /\ ~f.isNull
  /\ ~g.isNull
  /\ normalizeFilename(f.relative) = normalizeFilename(g.relative)
  /\ isMinified(f.relative) = isMinified(g.relative)

\* an exception thrown by report is not caught: the process ends
crashed == call.op = "report" /\ threw

Init ==
  /\ constIsLegacy \in BOOLEAN
  /\ options = defaultOptions
  /\ files = << >>
  /\ filesProto = objectPrototype
  /\ extensions = [x \in {Wildcard} |-> emptyExtension]
  /\ open = 0
  /\ nFactory = 0
  /\ nGather = 0
  /\ call = [op |-> "require", file |-> noFile, opts |-> noOpts]
  /\ threw = FALSE
  /\ cbCalls = 0
  /\ downstream = << >>
  /\ output = noOutput
  /\ ingested = [r \in Relatives |-> absent]
  /\ replaced = absent

\* module.exports(opts)
Factory(opts) ==
  /\ ~crashed
  /\ nFactory < MaxFactory
  /\ nFactory' = nFactory + 1
  /\ options' = assignToConst(options, defaults(opts, options))
  /\ threw' = ~constIsLegacy
  /\ open' = IF constIsLegacy THEN open + 1 ELSE open
  /\ call' = [op |-> "factory", file |-> noFile, opts |-> opts]
  /\ cbCalls' = 0
  /\ downstream' = << >>
  /\ replaced' = absent
  /\ UNCHANGED << constIsLegacy, files, filesProto, extensions, nGather, output, ingested >>

\* a stream that has not ended is given a file
Gather(file) ==
  /\ ~crashed
  /\ open > 0
  /\ nGather < MaxGather
  /\ nGather' = nGather + 1
  /\ LET g == gather(files, filesProto, file)
     IN  /\ files' = g.own
         /\ filesProto' = g.proto
         /\ downstream' = g.downstream
         /\ cbCalls' = Len(g.downstream)
  /\ threw' = FALSE
  /\ call' = [op |-> "gather", file |-> file, opts |-> noOpts]
  /\ ingested' = IF file.isNull THEN ingested
                 ELSE [ingested EXCEPT ![file.relative] = file.contents]
  /\ replaced' = IF sameLogicalFile(call.file, file) THEN call.file.contents ELSE absent
  /\ UNCHANGED << constIsLegacy, options, extensions, open, nFactory, output >>

\* a stream ends: its flush function report runs
Report ==
  /\ ~crashed
  /\ open > 0
  /\ open' = open - 1
  /\ LET r == report(files, extensions)
     IN  /\ files' = r.files
         /\ extensions' = r.extensions
         /\ threw' = r.threw
         /\ cbCalls' = r.cbCalls
         /\ output' = r.output
  /\ call' = [op |-> "report", file |-> noFile, opts |-> noOpts]
  /\ downstream' = << >>
  /\ replaced' = absent
  /\ UNCHANGED << constIsLegacy, options, filesProto, nFactory, nGather, ingested >>

Next ==
  \/ \E opts \in OptsArgs : Factory(opts)
  \/ \E file \in Files : Gather(file)
  \/ Report

Spec == Init /\ [][Next]_vars

\* ------------------------------------------------------------ properties
\* a step that is a call of gather
GatherStep == nGather' = nGather + 1

\* the last call was a report that folded the files and logged the tables
Reported == call.op = "report" /\ output.notice = "File Statistics"

\* reports run so far (each stream the factory returned runs report once)
reportsDone == IF constIsLegacy THEN nFactory - open ELSE 0

RECURSIVE SumOver(_, _, _, _)
SumOver(exts, S, group, field) ==
  IF S = {} THEN 0
  ELSE LET x == CHOOSE y \in S : TRUE
       IN  exts[x][group][field] + SumOver(exts, S \ {x}, group, field)

\* C1: after report has folded the files, the wildcard bucket's size.src,
\* size.dist, size.gzip and summed counts equal the sums of the same fields
\* over all buckets other than '*', for every file name, also one whose
\* extension is '*'.
C1_WildcardEqualsSumOfBuckets ==
  Reported =>
    LET others == DOMAIN extensions \ {Wildcard}
        all == extensions[Wildcard]
    IN  /\ all.size.src = SumOver(extensions, others, "size", "src")
        /\ all.size.dist = SumOver(extensions, others, "size", "dist")
        /\ all.size.gzip = SumOver(extensions, others, "size", "gzip")
        /\ sumCount(all.count) =
             SumOver(extensions, others, "count", "minified")
               + SumOver(extensions, others, "count", "unminified")
               + SumOver(extensions, others, "count", "both")

\* C2: folding a file entry into a bucket adds 1 to exactly one count: both
\* when both variants were recorded, minified when only the minified one was,
\* unminified when only the unminified one was, whatever the recorded sizes;
\* so after one report the wildcard counts sum to the number of entries.
C2_FoldCountsExactlyOneClass ==
  /\ \A i \in 1..Len(files) :
       ~throwsTypeError(files[i]) =>
         LET count == foldInto(emptyExtension, files[i]).count
             u == files[i].unminified # absent
             m == files[i].minified # absent
         IN  /\ count.both = (IF u /\ m THEN 1 ELSE 0)
             /\ count.minified = (IF m /\ ~u THEN 1 ELSE 0)
             /\ count.unminified = (IF u /\ ~m THEN 1 ELSE 0)
  /\ (Reported /\ reportsDone = 1) =>
       sumCount(extensions[Wildcard].count) = Len(files)

\* C3: a report that follows a report, with no file ingested in between,
\* leaves the files map and the extensions map as the first report left them.
C3_ReportTwiceChangesNothing ==
  [][(call.op = "report" /\ ~threw /\ call'.op = "report")
       => (files' = files /\ extensions' = extensions)]_vars

\* C4: after a report, every entry with an unminified variant of size A > 0
\* and a minified variant of size B >= 0 has minificationSizeRatio = B / A.
C4_MinificationRatioIsBOverA ==
  Reported =>
    \A i \in 1..Len(files) :
      (/\ files[i].unminified # absent
       /\ files[i].minified # absent
       /\ files[i].unminified.size > 0)
        => /\ files[i].minificationSizeRatio # undefined
           /\ files[i].minificationSizeRatio =
                Divide(files[i].minified.size, files[i].unminified.size)

\* an entry one of whose recorded variants has size 0
hasEmptyVariant(file) ==
  \/ (file.unminified # absent /\ file.unminified.size = 0)
  \/ (file.minified # absent /\ file.minified.size = 0)

\* C5: when some ingested file is empty, report does not throw, calls its
\* callback, and shows every ratio whose denominator is zero as '--'.
C5_EmptyFileReportCompletes ==
  (call.op = "report" /\ \E i \in 1..Len(files) : hasEmptyVariant(files[i])) =>
    /\ ~threw
    /\ cbCalls = 1
    /\ \A r \in 1..Len(output.fileTable) :
         LET file == files[IndexOfKey(files, output.fileTable[r].file)]
         IN  /\ (sizeOr0(file.unminified) = 0 /\ sizeOr0(file.minified) = 0)
                  => output.fileTable[r].compressionRatio = "--"
             /\ sizeOr0(file.unminified) = 0 => output.fileTable[r].minRatio = "--"

\* y is x with the marker re inserted at one position
isVariantOf(y, x, re) ==
  \E p \in 0..Len(x) : y = SubSeq(x, 1, p) \o re \o SubSeq(x, p + 1, Len(x))

\* C6: once an unminified file X and its minified variant have both been
\* ingested, in either order and whatever else was ingested, the files map
\* holds one entry keyed X whose unminified and minified fields are the data
\* of the two files.
C6_PairSharesOneEntry ==
  \A x \in Relatives, y \in Relatives :
    (/\ ~isMinified(x)
     /\ isVariantOf(y, x, options.minifiedName)
     /\ ingested[x] # absent
     /\ ingested[y] # absent)
      => /\ has(files, x)
         /\ ~has(files, y)
         /\ entryIn(files, filesProto, x).name = x
         /\ entryIn(files, filesProto, x).unminified = ingested[x]
         /\ entryIn(files, filesProto, x).minified = ingested[y]

\* C7: gather of a file without content leaves the files map and the
\* extensions map as they are and passes that file to the callback once.
C7_NullFilePassesThrough ==
  [][(GatherStep /\ call'.file.isNull)
       => /\ files' = files
          /\ filesProto' = filesProto
          /\ extensions' = extensions
          /\ cbCalls' = 1
          /\ downstream' = << call'.file >>]_vars

C7_Witness ==
  /\ call.op = "gather"
  /\ call.file.isNull
  /\ Len(files) > 0
  /\ ingested[call.file.relative] = absent
  /\ ~has(files, normalizeFilename(call.file.relative))
  /\ downstream = << call.file >>

\* C8: a call of the factory does not fail, and afterwards options holds
\* every recognized option the caller gave and the default of every other.
C8_FactoryTakesCallerOptions ==
  call.op = "factory" =>
    /\ ~threw
    /\ options = defaults(call.opts, defaultOptions)

\* C9: the normalized name of an ingested file no longer matches the marker,
\* and normalizing it again returns it unchanged.
C9_NormalizeRemovesEveryMarker ==
  (call.op = "gather" /\ ~call.file.isNull) =>
    LET normalized == normalizeFilename(call.file.relative)
    IN  /\ ~isMinified(normalized)
        /\ normalizeFilename(normalized) = normalized

====
